---- MODULE Spec2Model ----
(***************************************************************************)
(* Model of four components of the repository, one specification each:     *)
(*                                                                         *)
(*  Spec, SpecConc   the unary negation expression of the remap language   *)
(*                   (lib/vrl/compiler/src/expression/not.rs):             *)
(*                   Not::new, Not::type_def, Not::resolve, Not::emit_llvm,*)
(*                   Display and the diagnostic of a rejected negation     *)
(*  SpecSample       the sample transform (src/transforms/sample.rs)       *)
(*  SpecSplit        the split transform (src/transforms/split.rs)         *)
(*  SpecVdev         starting and stopping integration test environments   *)
(*                   (vdev/src/testing/integration.rs and                  *)
(*                   vdev/src/commands/integration/stop.rs)                *)
(*                                                                         *)
(* The leaf expressions, TypeDef, Kind, Value and the boolean coercion are *)
(* defined outside not.rs; they are modelled after the specification.      *)
(* The variables of the components a specification is not about stay at    *)
(* rest in it.                                                             *)
(***************************************************************************)
EXTENDS Integers, Sequences, FiniteSets, TLC

VARIABLES
    env,        \* state: (&LocalEnv, &ExternalEnv), the TypeDef of every identifier
    src,        \* the parsed source: a number of `!` in front of a leaf
    expr,       \* the expression built so far (the leaf, then Not over Not ...)
    built,      \* how many of the `!` of src have been given to Not::new
    status,     \* "ok", or "rejected" once Not::new returned Err
    diag,       \* the diagnostic of the Error Not::new returned
    ctx,        \* the Context of the last call of resolve
    resolved,   \* the Resolved that call returned
    llvm,       \* the outcome of the last call of emit_llvm
    evals,      \* the concurrent evaluations of the shared tree
    text,       \* what Display wrote for expr
    sampler,    \* the Sample: rate, key_field, exclude, count
    sampleCall, \* the last call of Sample::transform: its event, its output
    decided,    \* for every key value, what was decided when it was first sampled
    splitConfig, \* the SplitConfig the Split was built from
    splitter,   \* the Split: field_names, separator, field, drop_field
    splitCall,  \* the last call of Split::transform: its event, its output
    defined,    \* IntegrationTestConfig: the environments the configuration defines
    active,     \* EnvsDir: the saved configuration of every environment that is up
    runnerUp,   \* whether the shared runner of the integration is running
    oldExists,  \* whether an old-style compose file exists for the integration
    cmd         \* the last command: its arguments, what it did, what it returned

notVars == <<env, src, expr, built, status, diag, ctx, resolved, llvm, evals, text>>
sampleVars == <<sampler, sampleCall, decided>>
splitVars == <<splitConfig, splitter, splitCall>>
vdevVars == <<defined, active, runnerUp, oldExists, cmd>>

vars == <<notVars, sampleVars, splitVars, vdevVars>>

-----------------------------------------------------------------------------
(* Bounds *)

\* the longest chain of `!` in a source text
MaxNots == 3
\* the number of concurrent evaluations of one tree
NumEvals == 2
\* the width in bits the u64 of Sample (rate, count, hash) is scaled down to
WordBits == 3
\* the longest text of the field the split transform splits
MaxLen == 3
\* the largest number of field names of a split transform
MaxNames == 2

-----------------------------------------------------------------------------
(* Kind, Value, TypeDef *)

KindNames == {"boolean", "bytes", "integer"}

Kinds == (SUBSET KindNames) \ {{}}

Boolean(b) == [kind |-> "boolean", b |-> b, n |-> 0]
Bytes(n) == [kind |-> "bytes", b |-> FALSE, n |-> n]
Integer(n) == [kind |-> "integer", b |-> FALSE, n |-> n]
NoValue == [kind |-> "none", b |-> FALSE, n |-> 0]

Values == {Boolean(TRUE), Boolean(FALSE), Bytes(1), Integer(1)}

TypeDefs == [kind : Kinds, fallible : BOOLEAN, abortable : BOOLEAN]

TypeDef_boolean == [kind |-> {"boolean"}, fallible |-> FALSE, abortable |-> FALSE]

with_fallibility(td, fallible) == [td EXCEPT !.fallible = fallible]

with_abortability(td, abortable) == [td EXCEPT !.abortable = abortable]

is_boolean(td) == td.kind = {"boolean"}

is_fallible(td) == td.fallible

is_abortable(td) == td.abortable

-----------------------------------------------------------------------------
(* Resolved = Result<Value, ExpressionError> *)

Ok(v) == [tag |-> "ok", val |-> v, err |-> "none"]
Err(e) == [tag |-> "err", val |-> NoValue, err |-> e]
Abort == [tag |-> "abort", val |-> NoValue, err |-> "none"]
NoResult == [tag |-> "none", val |-> NoValue, err |-> "none"]

\* VrlValueConvert::try_boolean: the boolean of a boolean value, an
\* "expected boolean" error for every other value
try_boolean(v) ==
    IF v.kind = "boolean"
    THEN [tag |-> "ok", b |-> v.b, err |-> "none"]
    ELSE [tag |-> "err", b |-> FALSE, err |-> "expected_boolean"]

-----------------------------------------------------------------------------
(* Environment and Context *)

Idents == {"x"}

Envs == [Idents -> TypeDefs]

\* What evaluating a field yields in a Context: a value, a runtime error of
\* the expression the field stands for, or an abort.
LeafOutcomes == {Ok(v) : v \in Values} \cup {Err("leaf_error"), Abort}

Contexts == [Idents -> LeafOutcomes]

\* every field holds a value of its statically inferred kind, and fails or
\* aborts only where its TypeDef says so
WellTyped(c, state) ==
    \A i \in Idents :
        /\ c[i].tag = "ok" => c[i].val.kind \in state[i].kind
        /\ c[i].tag = "err" => state[i].fallible
        /\ c[i].tag = "abort" => state[i].abortable

-----------------------------------------------------------------------------
(* Expr *)

Literal(v) == [variant |-> "literal", value |-> v]
Query(i) == [variant |-> "query", ident |-> i]
Not(e) == [variant |-> "not", inner |-> e]

Leaves == {Literal(v) : v \in Values} \cup {Query(i) : i \in Idents}

RECURSIVE SubExprs(_)
\* e and every expression below it
SubExprs(e) == {e} \cup (IF e.variant = "not" THEN SubExprs(e.inner) ELSE {})

RECURSIVE Expr_type_def(_, _)
RECURSIVE Expr_resolve(_, _)

\* Not::type_def without the with_abortability call
Not_type_def_no_abortability(self, state) ==
    LET type_def == Expr_type_def(self.inner, state)
        fallible == is_fallible(type_def)
    IN  with_fallibility(TypeDef_boolean, fallible)

\* Not::type_def
Not_type_def(self, state) ==
    LET type_def == Expr_type_def(self.inner, state)
        fallible == is_fallible(type_def)
        abortable == is_abortable(type_def)
    IN  with_abortability(with_fallibility(TypeDef_boolean, fallible), abortable)

Expr_type_def(e, state) ==
    CASE e.variant = "literal" ->
            [kind |-> {e.value.kind}, fallible |-> FALSE, abortable |-> FALSE]
      [] e.variant = "query" -> state[e.ident]
      [] e.variant = "not" -> Not_type_def(e, state)

\* Not::resolve without the `!`
Not_resolve_no_negation(self, c) ==
    LET inner == Expr_resolve(self.inner, c)
    IN  IF inner.tag # "ok"
        THEN inner
        ELSE LET b == try_boolean(inner.val)
             IN  IF b.tag # "ok" THEN Err(b.err) ELSE Ok(Boolean(b.b))

\* Not::resolve with the coercion unwrapped instead of propagated with `?`
Not_resolve_unwrap(self, c) ==
    LET inner == Expr_resolve(self.inner, c)
    IN  IF inner.tag # "ok"
        THEN inner
        ELSE LET b == try_boolean(inner.val)
             IN  IF b.tag # "ok"
                 THEN [tag |-> "panic", val |-> NoValue, err |-> b.err]
                 ELSE Ok(Boolean(~b.b))

\* a resolve that coerces whatever its operand returned but an abort
Not_negate_coerces_errors(inner) ==
    IF inner.tag = "abort"
    THEN inner
    ELSE LET b == try_boolean(inner.val)
         IN  IF b.tag # "ok" THEN Err(b.err) ELSE Ok(Boolean(~b.b))

\* what Not::resolve makes of the Resolved of its operand: the first `?`
\* returns an error or abort of the operand as it is, the second `?` returns
\* the error of try_boolean, and the boolean is negated and wrapped
Not_negate(inner) ==
    IF inner.tag # "ok"
    THEN inner
    ELSE LET b == try_boolean(inner.val)
         IN  IF b.tag # "ok" THEN Err(b.err) ELSE Ok(Boolean(~b.b))

\* Not::resolve: Ok((!self.inner.resolve(ctx)?.try_boolean()?).into())
Not_resolve(self, c) == Not_negate(Expr_resolve(self.inner, c))

Expr_resolve(e, c) ==
    CASE e.variant = "literal" -> Ok(e.value)
      [] e.variant = "query" -> c[e.ident]
      [] e.variant = "not" -> Not_resolve(e, c)

-----------------------------------------------------------------------------
(* Construction *)

Span(start, end) == [start |-> start, end |-> end]

Node(span, e) == [span |-> span, expr |-> e]

\* Not::new asking whether the operand may be a boolean, not whether it must be
Not_new_contains_boolean(node, not_span, state) ==
    LET expr_span == node.span
        e == node.expr
        type_def == Expr_type_def(e, state)
    IN  IF ~("boolean" \in type_def.kind)
        THEN [ok |-> FALSE,
              error |-> [variant |-> [name |-> "NonBoolean", kind |-> type_def.kind],
                         not_span |-> not_span,
                         expr_span |-> expr_span]]
        ELSE [ok |-> TRUE, not |-> Not(e)]

\* Not::new without the check of the operand
Not_new_unchecked(node, not_span, state) == [ok |-> TRUE, not |-> Not(node.expr)]

\* Not::new
Not_new(node, not_span, state) ==
    LET expr_span == node.span
        e == node.expr
        type_def == Expr_type_def(e, state)
    IN  IF ~is_boolean(type_def)
        THEN [ok |-> FALSE,
              error |-> [variant |-> [name |-> "NonBoolean", kind |-> type_def.kind],
                         not_span |-> not_span,
                         expr_span |-> expr_span]]
        ELSE [ok |-> TRUE, not |-> Not(e)]

NoError ==
    [variant |-> [name |-> "none", kind |-> {}],
     not_span |-> Span(0, 0),
     expr_span |-> Span(0, 0)]

-----------------------------------------------------------------------------
(* impl DiagnosticMessage for Error *)

Label_primary(message, span) == [role |-> "primary", message |-> message, span |-> span]

Label_context(message, span) == [role |-> "context", message |-> message, span |-> span]

Note_CoerceValue == [note |-> "CoerceValue"]

Note_SeeDocs(title, url) == [note |-> "SeeDocs", title |-> title, url |-> url]

Urls_func_docs(anchor) == <<"func_docs", anchor>>

Error_code(self) ==
    CASE self.variant.name = "NonBoolean" -> 660

\* labels with the two spans exchanged
Error_labels_swapped_spans(self) ==
    CASE self.variant.name = "NonBoolean" ->
        << Label_primary(<<"negation only works on boolean values">>, self.expr_span),
           Label_context(<<"this expression resolves to ", self.variant.kind>>,
                         self.not_span) >>

Error_labels(self) ==
    CASE self.variant.name = "NonBoolean" ->
        << Label_primary(<<"negation only works on boolean values">>, self.not_span),
           Label_context(<<"this expression resolves to ", self.variant.kind>>,
                         self.expr_span) >>

Error_notes(self) ==
    CASE self.variant.name = "NonBoolean" ->
        << Note_CoerceValue,
           Note_SeeDocs("type coercion", Urls_func_docs("#coerce-functions")) >>

-----------------------------------------------------------------------------
(* Compiled backend *)

Backends == {"backend_a", "backend_b"}

\* an emit_llvm that emits nothing and reports success
Not_emit_llvm_ok(self, state, backend) == "ok"

\* Not::emit_llvm: todo!() panics, whatever it is given
Not_emit_llvm(self, state, backend) == "panic"

-----------------------------------------------------------------------------
(* The source text: `!` ... `!` leaf, with the spans the parser gives *)

Sources == [nots : 0..MaxNots, leaf : Leaves]

LeafLen(leaf) ==
    CASE leaf.variant = "query" -> 1
      [] leaf.variant = "literal" /\ leaf.value = Boolean(TRUE) -> 4
      [] leaf.variant = "literal" /\ leaf.value = Boolean(FALSE) -> 5
      [] leaf.variant = "literal" /\ leaf.value.kind = "bytes" -> 5
      [] leaf.variant = "literal" /\ leaf.value.kind = "integer" -> 1

\* the span of the k-th `!` to be constructed (the innermost one is built first)
NotSpan(s, k) == Span(s.nots - k - 1, s.nots - k)

\* the span of the operand of that `!`: the rest of the text
OperandSpan(s, k) == Span(s.nots - k, s.nots + LeafLen(s.leaf))

-----------------------------------------------------------------------------
(* impl fmt::Display for Not, and the parser that reads the text back *)

\* the characters a leaf is written with
LeafText(leaf) ==
    CASE leaf.variant = "query" -> <<leaf.ident>>
      [] leaf.variant = "literal" /\ leaf.value = Boolean(TRUE) -> <<"t", "r", "u", "e">>
      [] leaf.variant = "literal" /\ leaf.value = Boolean(FALSE) -> <<"f", "a", "l", "s", "e">>
      [] leaf.variant = "literal" /\ leaf.value.kind = "bytes" -> <<"\"", "a", "b", "c", "\"">>
      [] leaf.variant = "literal" /\ leaf.value.kind = "integer" -> <<"1">>

RECURSIVE Expr_fmt(_)

\* a Display that writes the `!` behind the operand
Not_fmt_postfix(self) == Expr_fmt(self.inner) \o <<"!">>

\* Display for Not: write!(f, "!{}", self.inner)
Not_fmt(self) == <<"!">> \o Expr_fmt(self.inner)

Expr_fmt(e) ==
    CASE e.variant = "not" -> Not_fmt(e)
      [] OTHER -> LeafText(e)

RECURSIVE Parse(_)
\* the parser: every leading `!` is a negation of what follows, the rest is a leaf
Parse(t) ==
    IF t # <<>> /\ Head(t) = "!"
    THEN LET p == Parse(Tail(t))
         IN  [p EXCEPT !.source.nots = @ + 1]
    ELSE IF \E l \in Leaves : LeafText(l) = t
         THEN [ok |-> TRUE,
               source |-> [nots |-> 0, leaf |-> CHOOSE l \in Leaves : LeafText(l) = t]]
         ELSE [ok |-> FALSE, source |-> [nots |-> 0, leaf |-> Literal(NoValue)]]

-----------------------------------------------------------------------------
(* Concurrent evaluations of one tree *)

EvalIds == 1..NumEvals

IdleEval == [pc |-> "idle", ctx |-> [i \in Idents |-> Abort], pos |-> 0, ret |-> NoResult,
             calls |-> <<>>]

RECURSIVE NodeAt(_, _)
\* the node reached from e by following `inner` pos times
NodeAt(e, pos) == IF pos = 0 THEN e ELSE NodeAt(e.inner, pos - 1)

\* one Context used by every evaluation
EvalContext_shared(i) == evals[1].ctx

\* the Context an evaluation passes down the tree: its own
EvalContext(i) == evals[i].ctx

-----------------------------------------------------------------------------
(* The components at rest *)

NoText == <<>>

NotAtRest ==
    /\ env = [i \in Idents |-> TypeDef_boolean]
    /\ src = [nots |-> 0, leaf |-> Literal(Boolean(TRUE))]
    /\ expr = Literal(Boolean(TRUE))
    /\ built = 0
    /\ status = "ok"
    /\ diag = NoError
    /\ ctx = [i \in Idents |-> Abort]
    /\ resolved = NoResult
    /\ llvm = "none"
    /\ evals = [i \in EvalIds |-> IdleEval]
    /\ text = NoText

SampleAtRest == sampler = <<>> /\ sampleCall = <<>> /\ decided = <<>>

SplitAtRest == splitConfig = <<>> /\ splitter = <<>> /\ splitCall = <<>>

VdevAtRest ==
    /\ defined = <<>>
    /\ active = <<>>
    /\ runnerUp = FALSE
    /\ oldExists = FALSE
    /\ cmd = <<>>

-----------------------------------------------------------------------------
(* Specification of construction, resolution and lowering *)

Init ==
    /\ env \in Envs
    /\ src \in Sources
    /\ expr = src.leaf
    /\ built = 0
    /\ status = "ok"
    /\ diag = NoError
    /\ ctx = [i \in Idents |-> Abort]
    /\ resolved = NoResult
    /\ llvm = "none"
    /\ evals = [i \in EvalIds |-> IdleEval]
    /\ text = NoText
    /\ SampleAtRest /\ SplitAtRest /\ VdevAtRest

\* the compiler hands the next `!` and its operand to Not::new
Compile ==
    /\ status = "ok"
    /\ built < src.nots
    /\ LET r == Not_new(Node(OperandSpan(src, built), expr), NotSpan(src, built), env)
       IN  IF r.ok
           THEN /\ expr' = r.not
                /\ built' = built + 1
                /\ UNCHANGED <<status, diag>>
           ELSE /\ status' = "rejected"
                /\ diag' = r.error
                /\ UNCHANGED <<expr, built>>
    /\ UNCHANGED <<env, src, ctx, resolved, llvm, evals, text>>
    /\ UNCHANGED <<sampleVars, splitVars, vdevVars>>

\* the program is run on one event
Resolve ==
    /\ status = "ok"
    /\ built = src.nots
    /\ \E c \in Contexts :
        /\ ctx' = c
        /\ resolved' = Expr_resolve(expr, c)
    /\ UNCHANGED <<env, src, expr, built, status, diag, llvm, evals, text>>
    /\ UNCHANGED <<sampleVars, splitVars, vdevVars>>

\* the program is lowered to the compiled backend
EmitLlvm ==
    /\ status = "ok"
    /\ built = src.nots
    /\ expr.variant = "not"
    /\ \E backend \in Backends :
        llvm' = Not_emit_llvm(expr, env, backend)
    /\ status' = IF llvm' = "panic" THEN "panicked" ELSE status
    /\ UNCHANGED <<env, src, expr, built, diag, ctx, resolved, evals, text>>
    /\ UNCHANGED <<sampleVars, splitVars, vdevVars>>

\* the program is written out with Display
Format ==
    /\ status = "ok"
    /\ built = src.nots
    /\ text' = Expr_fmt(expr)
    /\ UNCHANGED <<env, src, expr, built, status, diag, ctx, resolved, llvm, evals>>
    /\ UNCHANGED <<sampleVars, splitVars, vdevVars>>

Next == Compile \/ Resolve \/ EmitLlvm \/ Format

Spec == Init /\ [][Next]_vars

-----------------------------------------------------------------------------
(* Specification of concurrent evaluations of one constructed tree.  Every  *)
(* evaluation walks the tree depth first: resolve of a Not calls resolve of *)
(* its operand, and negates what that call returns.                         *)

RECURSIVE Compiled(_, _, _)
\* the result of constructing the first k `!` of s, innermost first
Compiled(s, k, state) ==
    IF k = 0
    THEN [ok |-> TRUE, not |-> s.leaf]
    ELSE LET below == Compiled(s, k - 1, state)
         IN  IF ~below.ok
             THEN below
             ELSE Not_new(Node(OperandSpan(s, k - 1), below.not),
                          NotSpan(s, k - 1), state)

\* the environment of the programs that are evaluated concurrently
ConcEnv == [i \in Idents |-> [kind |-> {"boolean"}, fallible |-> TRUE, abortable |-> TRUE]]

InitConc ==
    /\ env = ConcEnv
    /\ src \in Sources
    /\ Compiled(src, src.nots, env).ok
    /\ expr = Compiled(src, src.nots, env).not
    /\ built = src.nots
    /\ status = "ok"
    /\ diag = NoError
    /\ ctx = [i \in Idents |-> Abort]
    /\ resolved = NoResult
    /\ llvm = "none"
    /\ evals = [i \in EvalIds |-> IdleEval]
    /\ text = NoText
    /\ SampleAtRest /\ SplitAtRest /\ VdevAtRest

\* an evaluation is given an event of its own and calls resolve on the root;
\* calls lists the nodes resolve was entered on, in the order of the calls
EvalStart(i) ==
    /\ evals[i].pc = "idle"
    /\ \E c \in Contexts :
        evals' = [evals EXCEPT ![i] = [pc |-> "call", ctx |-> c, pos |-> 0, ret |-> NoResult,
                                       calls |-> <<0>>]]
    /\ UNCHANGED <<env, src, expr, built, status, diag, ctx, resolved, llvm, text>>
    /\ UNCHANGED <<sampleVars, splitVars, vdevVars>>

\* resolve is entered on the node at pos: a Not calls resolve of its operand,
\* a leaf is evaluated in the evaluation's Context
EvalCall(i) ==
    /\ evals[i].pc = "call"
    /\ LET node == NodeAt(expr, evals[i].pos)
       IN  IF node.variant = "not"
           THEN evals' = [evals EXCEPT ![i].pos = @ + 1,
                                       ![i].calls = Append(@, evals[i].pos + 1)]
           ELSE evals' = [evals EXCEPT ![i].pc = "return",
                                       ![i].ret = Expr_resolve(node, EvalContext(i))]
    /\ UNCHANGED <<env, src, expr, built, status, diag, ctx, resolved, llvm, text>>
    /\ UNCHANGED <<sampleVars, splitVars, vdevVars>>

\* the call on the node at pos returns to the Not above it, which applies
\* `?`, try_boolean and `!`; the call on the root returns to the caller
EvalReturn(i) ==
    /\ evals[i].pc = "return"
    /\ IF evals[i].pos = 0
       THEN evals' = [evals EXCEPT ![i].pc = "done"]
       ELSE evals' = [evals EXCEPT ![i].pos = @ - 1,
                                   ![i].ret = Not_negate(evals[i].ret)]
    /\ UNCHANGED <<env, src, expr, built, status, diag, ctx, resolved, llvm, text>>
    /\ UNCHANGED <<sampleVars, splitVars, vdevVars>>

\* the caller drops the Context and the result
EvalDrop(i) ==
    /\ evals[i].pc = "done"
    /\ evals' = [evals EXCEPT ![i] = IdleEval]
    /\ UNCHANGED <<env, src, expr, built, status, diag, ctx, resolved, llvm, text>>
    /\ UNCHANGED <<sampleVars, splitVars, vdevVars>>

NextConc ==
    \E i \in EvalIds : EvalStart(i) \/ EvalCall(i) \/ EvalReturn(i) \/ EvalDrop(i)

SpecConc == InitConc /\ [][NextConc]_vars

-----------------------------------------------------------------------------
(* Properties of construction *)

\* C1: Not::new succeeds exactly when the kind-set of the operand's TypeDef is
\* exactly {boolean}, whatever its flags: it then builds the Not over the
\* operand; for every other kind-set it returns the NonBoolean error and
\* builds no Not.
C1_NewAcceptsExactlyBoolean ==
    [][ (status = "ok" /\ built < src.nots) =>
            IF Expr_type_def(expr, env).kind = {"boolean"}
            THEN /\ status' = "ok"
                 /\ expr' = Not(expr)
                 /\ diag' = NoError
            ELSE /\ status' = "rejected"
                 /\ diag'.variant.name = "NonBoolean"
                 /\ expr' = expr
                 /\ expr'.variant # "not" ]_vars

\* a union of boolean and another kind was rejected
C1_Witness ==
    /\ status = "rejected"
    /\ "boolean" \in diag.variant.kind
    /\ diag.variant.kind # {"boolean"}

\* C7: the diagnostic of a rejected negation has code 660, exactly one primary
\* label, first, on the span of the `!`, then one context label on the span of
\* the operand that reports the operand's inferred kind, and notes that
\* suggest a coercion and refer to the coercion functions' documentation.
C7_DiagnosticShape ==
    status = "rejected" =>
        LET labels == Error_labels(diag)
            notes == Error_notes(diag)
        IN  /\ Error_code(diag) = 660
            /\ Len(labels) = 2
            /\ Cardinality({i \in 1..Len(labels) : labels[i].role = "primary"}) = 1
            /\ labels[1].role = "primary"
            /\ labels[1].span = NotSpan(src, built)
            /\ labels[2].role = "context"
            /\ labels[2].span = OperandSpan(src, built)
            /\ labels[2].message[2] = Expr_type_def(expr, env).kind
            /\ Len(notes) = 2
            /\ notes[1] = Note_CoerceValue
            /\ notes[2].note = "SeeDocs"
            /\ notes[2].url = Urls_func_docs("#coerce-functions")
            /\ (src = [nots |-> 1, leaf |-> Literal(Bytes(1))] =>
                    /\ labels[1].span = Span(0, 1)
                    /\ labels[2].span = Span(1, 6)
                    /\ labels[2].message[2] = {"bytes"})

\* `!!"abc"` was rejected: the inner `!` is the erroneous construct
C7_Witness ==
    /\ status = "rejected"
    /\ src = [nots |-> 2, leaf |-> Literal(Bytes(1))]
    /\ Error_labels(diag)[1].span = Span(1, 2)
    /\ Error_labels(diag)[2].span = Span(2, 7)

\* C11: a negation is written as `!` immediately followed by the text of its
\* operand, and parsing that text and constructing it again in the same
\* environment gives an expression with the same TypeDef.
C11_FormatRoundTrip ==
    (text # NoText /\ expr.variant = "not") =>
        /\ text = <<"!">> \o Expr_fmt(expr.inner)
        /\ LET p == Parse(text)
           IN  /\ p.ok
               /\ LET again == Compiled(p.source, p.source.nots, env)
                  IN  /\ again.ok
                      /\ Expr_type_def(again.not, env) = Expr_type_def(expr, env)

\* `!!x` over a fallible, abortable x was written out
C11_Witness ==
    /\ text = <<"!", "!", "x">>
    /\ Expr_type_def(expr, env).fallible
    /\ Expr_type_def(expr, env).abortable

-----------------------------------------------------------------------------
(* Properties of static typing *)

\* C2: every constructed negation, at any depth, has kind exactly {boolean}
\* and the fallible and abortable flags of its operand, so that each flag is
\* the OR of the flags of all the expressions below it.
C2_TypeDefPropagatesFlags ==
    \A e \in SubExprs(expr) :
        e.variant = "not" =>
            LET td == Not_type_def(e, env)
                inner == Expr_type_def(e.inner, env)
                below == SubExprs(e.inner)
            IN  /\ td.kind = {"boolean"}
                /\ td.fallible = inner.fallible
                /\ td.abortable = inner.abortable
                /\ td.fallible = (\E s \in below : Expr_type_def(s, env).fallible)
                /\ td.abortable = (\E s \in below : Expr_type_def(s, env).abortable)

\* a negation of a negation of a fallible, abortable operand
C2_Witness ==
    /\ expr.variant = "not"
    /\ expr.inner.variant = "not"
    /\ Not_type_def(expr, env).fallible
    /\ Not_type_def(expr, env).abortable

-----------------------------------------------------------------------------
(* Properties of resolution *)

Resolved_ == resolved # NoResult

\* C3: when the operand resolves to a boolean b, the negation resolves to
\* Ok(not b); `!true` is false, `!false` is true, and a double negation
\* resolves to what its innermost operand resolves to.
C3_ResolveNegates ==
    (Resolved_ /\ expr.variant = "not") =>
        LET inner == Expr_resolve(expr.inner, ctx)
        IN  /\ (inner.tag = "ok" /\ inner.val.kind = "boolean") =>
                    /\ resolved = Ok(Boolean(~inner.val.b))
                    /\ expr.inner.variant = "not" =>
                            resolved = Expr_resolve(expr.inner.inner, ctx)
            /\ expr = Not(Literal(Boolean(TRUE))) => resolved = Ok(Boolean(FALSE))
            /\ expr = Not(Literal(Boolean(FALSE))) => resolved = Ok(Boolean(TRUE))

\* a double negation of a field that holds true resolved to true
C3_Witness ==
    /\ Resolved_
    /\ expr = Not(Not(Query("x")))
    /\ ctx["x"] = Ok(Boolean(TRUE))
    /\ resolved = Ok(Boolean(TRUE))

\* C4: type soundness: an expression whose TypeDef is not fallible never
\* resolves to a runtime error in a well-typed Context.
C4_TypeSoundness ==
    (Resolved_ /\ WellTyped(ctx, env) /\ ~Expr_type_def(expr, env).fallible) =>
        resolved.tag # "err"

\* a negation of an infallible boolean field was resolved in a well-typed Context
C4_Witness ==
    /\ Resolved_
    /\ expr.variant = "not"
    /\ expr.inner = Query("x")
    /\ WellTyped(ctx, env)
    /\ ~Expr_type_def(expr, env).fallible
    /\ resolved.tag = "ok"

\* C5: whenever resolve of a negation returns a runtime error, in any Context,
\* the TypeDef of the negation is fallible.
C5_ErrorsAreDeclared ==
    (Resolved_ /\ expr.variant = "not" /\ resolved.tag = "err") =>
        Not_type_def(expr, env).fallible

\* C6: when the operand resolves to a value that is not a boolean, resolve of
\* the negation returns the coercion's error as an error value: it neither
\* panics nor returns a value.
C6_NonBooleanIsRuntimeError ==
    (Resolved_ /\ expr.variant = "not") =>
        LET inner == Expr_resolve(expr.inner, ctx)
        IN  (inner.tag = "ok" /\ inner.val.kind # "boolean") =>
                /\ resolved.tag = "err"
                /\ resolved.err = "expected_boolean"
                /\ resolved.val = NoValue

\* `!x` was resolved where x, typed boolean, holds bytes
C6_Witness ==
    /\ Resolved_
    /\ expr = Not(Query("x"))
    /\ ctx["x"] = Ok(Bytes(1))
    /\ resolved = Err("expected_boolean")

-----------------------------------------------------------------------------
(* Properties of the compiled backend *)

\* C8: lowering a negation never reports success and never falls back to
\* interpretation: every call of emit_llvm fails loudly, whatever the state
\* and the backend context, and resolves nothing.
C8_EmitLlvmRefuses ==
    [][ llvm' # llvm =>
            /\ llvm' \in {"panic", "err"}
            /\ resolved' = resolved
            /\ ctx' = ctx ]_vars

\* emit_llvm was called on a negation of a negation
C8_Witness ==
    /\ llvm = "panic"
    /\ expr.variant = "not"
    /\ expr.inner.variant = "not"

-----------------------------------------------------------------------------
(* Properties of concurrent evaluation *)

\* C10: under every interleaving of the evaluations of one tree, each
\* evaluation returns what resolve returns on its own Context alone, and the
\* tree is never changed.
C10_ConcurrentEvaluationsIsolated ==
    /\ [](\A i \in EvalIds :
            evals[i].pc = "done" => evals[i].ret = Expr_resolve(expr, evals[i].ctx))
    /\ [][expr' = expr /\ Expr_type_def(expr', env') = Expr_type_def(expr, env)]_vars

\* one evaluation has returned while another, on a different Context with a
\* different result, is still returning through the tree
C10_Witness ==
    /\ expr.variant = "not"
    /\ evals[1].pc = "done"
    /\ evals[1].ret = Ok(Boolean(TRUE))
    /\ evals[2].pc = "return"
    /\ evals[2].pos = 1
    /\ evals[2].ctx # evals[1].ctx
    /\ evals[2].ret = Ok(Bytes(1))

\* the nodes of a tree of depth n, from the root down
NodesDown(n) == [k \in 1..(n + 1) |-> k - 1]

\* C20: every evaluation enters resolve on the nodes of the tree from the root
\* down, each node once and the operand of a Not right after the Not, so that
\* when it returns every node was resolved exactly once; and a Not whose
\* operand returned a runtime error returns that same error, which carries no
\* value, and calls resolve on nothing again.
C20_SinglePassAndErrorsPassThrough ==
    /\ [](\A i \in EvalIds :
            /\ evals[i].pc = "call" => evals[i].calls = NodesDown(evals[i].pos)
            /\ evals[i].pc \in {"return", "done"} => evals[i].calls = NodesDown(built))
    /\ [][\A i \in EvalIds :
            (evals[i].pc = "return" /\ evals[i].pos > 0 /\ evals[i].ret.tag = "err") =>
                /\ evals'[i].ret = evals[i].ret
                /\ evals'[i].ret.val = NoValue
                /\ evals'[i].calls = evals[i].calls]_vars

\* an evaluation of a negation of a negation has returned the runtime error
\* its field evaluated to
C20_Witness ==
    /\ built >= 2
    /\ evals[1].pc = "done"
    /\ evals[1].ctx["x"] = Err("leaf_error")
    /\ evals[1].ret = Err("leaf_error")
    /\ evals[1].calls = NodesDown(built)

-----------------------------------------------------------------------------
(* The sample transform: src/transforms/sample.rs *)

U64Max == 2^WordBits - 1

\* Option<T>: None carries a value of the type that is never read
NoneOf(v) == [some |-> FALSE, v |-> v]
Some(v) == [some |-> TRUE, v |-> v]

\* Option<String>, Option<LookupBuf>, Option<Box<dyn Condition>>
NoString == NoneOf(<<>>)
NoField == NoneOf("")
NoCondition == NoneOf([field |-> "", value |-> <<>>])

\* a field of a log event: absent, or present with its text
Absent == [present |-> FALSE, s |-> <<>>]
Present(s) == [present |-> TRUE, s |-> s]

SampleFields == {"message", "key", "sample_rate"}

\* the events given to the sampler: a message, with or without a key, with or
\* without a sample_rate left by an earlier sampler
SampleEvents ==
    [message : {Present(<<"n", "a">>), Present(<<"o", "k">>)},
     key : {Absent, Present(<<"a">>), Present(<<"b">>), Present(<<"c">>)},
     sample_rate : {Absent, Present(<<"9">>)}]

NoEvent == [message |-> Absent, key |-> Absent, sample_rate |-> Absent]

\* LogEvent::get
Event_get(event, field) == IF event[field].present THEN Some(event[field].s) ELSE NoString

\* LogEvent::insert
Event_insert(event, field, s) == [event EXCEPT ![field] = Present(s)]

\* Value::to_string_lossy of a field that holds text
to_string_lossy(v) == v

\* Condition::check of a check_fields condition `field.eq = value`
Condition_check(condition, event) ==
    event[condition.field].present /\ event[condition.field].s = condition.value

\* seahash::hash, scaled down to WordBits bits
seahash_hash(bytes) ==
    (CASE bytes = <<"a">> -> 6
       [] bytes = <<"b">> -> 3
       [] bytes = <<"c">> -> 0
       [] OTHER -> 5) % (U64Max + 1)

DigitChars == <<"0", "1", "2", "3", "4", "5", "6", "7", "8", "9">>

RECURSIVE u64_to_string(_)
\* u64::to_string: the decimal digits, most significant first
u64_to_string(n) ==
    IF n < 10
    THEN <<DigitChars[n + 1]>>
    ELSE u64_to_string(n \div 10) \o <<DigitChars[(n % 10) + 1]>>

\* Sample::new
Sample_new(rate, key_field, exclude) ==
    [rate |-> rate, key_field |-> key_field, exclude |-> exclude, count |-> 0]

\* what a call of transform leaves: the Sample, the events pushed to output,
\* and whether the call panicked (a remainder by zero) or count + 1 overflowed
Outcome(self, output, panic, overflow) ==
    [sampler |-> self, output |-> output, panic |-> panic, overflow |-> overflow]

\* the sampling part of transform that takes num from the counter alone
Sample_sampled_ignores_key(self, event) ==
    LET num == self.count
    IN  IF self.rate = 0
        THEN Outcome(self, <<>>, TRUE, FALSE)
        ELSE LET after == [self EXCEPT !.count = ((self.count + 1) % (U64Max + 1)) % self.rate]
             IN  IF num % self.rate = 0
                 THEN Outcome(after,
                              <<Event_insert(event, "sample_rate", u64_to_string(self.rate))>>,
                              FALSE, self.count + 1 > U64Max)
                 ELSE Outcome(after, <<>>, FALSE, self.count + 1 > U64Max)

\* the sampling part of transform that writes the counter into sample_rate
Sample_sampled_writes_count(self, event) ==
    LET value == IF self.key_field.some
                 THEN Event_get(event, self.key_field.v)
                 ELSE NoString
        num == IF value.some THEN seahash_hash(to_string_lossy(value.v)) ELSE self.count
    IN  IF self.rate = 0
        THEN Outcome(self, <<>>, TRUE, FALSE)
        ELSE LET after == [self EXCEPT !.count = ((self.count + 1) % (U64Max + 1)) % self.rate]
             IN  IF num % self.rate = 0
                 THEN Outcome(after,
                              <<Event_insert(event, "sample_rate", u64_to_string(self.count))>>,
                              FALSE, self.count + 1 > U64Max)
                 ELSE Outcome(after, <<>>, FALSE, self.count + 1 > U64Max)

\* the sampling part of transform that leaves the counter alone when the
\* decision is taken from the key
Sample_sampled_keyed_keeps_count(self, event) ==
    LET value == IF self.key_field.some
                 THEN Event_get(event, self.key_field.v)
                 ELSE NoString
        num == IF value.some THEN seahash_hash(to_string_lossy(value.v)) ELSE self.count
    IN  IF self.rate = 0
        THEN Outcome(self, <<>>, TRUE, FALSE)
        ELSE LET after == IF value.some
                          THEN self
                          ELSE [self EXCEPT !.count =
                                    ((self.count + 1) % (U64Max + 1)) % self.rate]
             IN  IF num % self.rate = 0
                 THEN Outcome(after,
                              <<Event_insert(event, "sample_rate", u64_to_string(self.rate))>>,
                              FALSE, self.count + 1 > U64Max)
                 ELSE Outcome(after, <<>>, FALSE, self.count + 1 > U64Max)

\* Sample::transform, lines 120-141: the event did not match exclude
Sample_sampled(self, event) ==
    LET value == IF self.key_field.some
                 THEN Event_get(event, self.key_field.v)
                 ELSE NoString
        num == IF value.some THEN seahash_hash(to_string_lossy(value.v)) ELSE self.count
    IN  IF self.rate = 0
        THEN Outcome(self, <<>>, TRUE, FALSE)
        ELSE LET after == [self EXCEPT !.count = ((self.count + 1) % (U64Max + 1)) % self.rate]
             IN  IF num % self.rate = 0
                 THEN Outcome(after,
                              <<Event_insert(event, "sample_rate", u64_to_string(self.rate))>>,
                              FALSE, self.count + 1 > U64Max)
                 ELSE Outcome(after, <<>>, FALSE, self.count + 1 > U64Max)

\* a transform that counts an excluded event before it passes it
Sample_transform_counts_excluded(self, event) ==
    IF self.exclude.some /\ Condition_check(self.exclude.v, event)
    THEN [Sample_sampled(self, event) EXCEPT !.output = <<event>>]
    ELSE Sample_sampled(self, event)

\* Sample::transform
Sample_transform(self, event) ==
    IF self.exclude.some /\ Condition_check(self.exclude.v, event)
    THEN Outcome(self, <<event>>, FALSE, FALSE)
    ELSE Sample_sampled(self, event)

KeyTexts == {<<"a">>, <<"b">>, <<"c">>}

NoCall == [called |-> FALSE, event |-> NoEvent, before |-> Sample_new(0, NoField, NoCondition),
           output |-> <<>>, panic |-> FALSE, overflow |-> FALSE, window |-> <<>>]

SampleConfigs ==
    [rate : 0..U64Max,
     key_field : {NoField, Some("key")},
     exclude : {NoCondition, Some([field |-> "message", value |-> <<"n", "a">>])}]

InitSample ==
    /\ NotAtRest /\ SplitAtRest /\ VdevAtRest
    /\ \E c \in SampleConfigs : sampler = Sample_new(c.rate, c.key_field, c.exclude)
    /\ sampleCall = NoCall
    /\ decided = [k \in KeyTexts |-> "none"]

\* whether the event matches the exclude condition of the Sample
Excluded(self, event) == self.exclude.some /\ Condition_check(self.exclude.v, event)

\* whether the Sample takes its decision on the event from the key's hash
Keyed(self, event) == self.key_field.some /\ event[self.key_field.v].present

\* the last n entries of a sequence
LastOf(seq, n) == IF Len(seq) <= n THEN seq ELSE SubSeq(seq, Len(seq) - n + 1, Len(seq))

\* whether each of the last `rate` events that reached the sampling of a
\* Sample without key_field was passed, the latest last
Window(self, event, window, r) ==
    IF self.key_field.some \/ Excluded(self, event) \/ r.panic
    THEN window
    ELSE LastOf(Append(window, r.output # <<>>), self.rate)

\* one event goes through the sampler
SampleTransform ==
    /\ ~sampleCall.panic
    /\ \E event \in SampleEvents :
        LET r == Sample_transform(sampler, event)
        IN  /\ sampler' = r.sampler
            /\ sampleCall' = [called |-> TRUE, event |-> event, before |-> sampler,
                              output |-> r.output, panic |-> r.panic,
                              overflow |-> r.overflow,
                              window |-> Window(sampler, event, sampleCall.window, r)]
            /\ decided' =
                 IF Keyed(sampler, event) /\ ~Excluded(sampler, event) /\ ~r.panic
                    /\ decided[event.key.s] = "none"
                 THEN [decided EXCEPT ![event.key.s] =
                            IF r.output = <<>> THEN "drop" ELSE "pass"]
                 ELSE decided
    /\ UNCHANGED <<notVars, splitVars, vdevVars>>

NextSample == SampleTransform

SpecSample == InitSample /\ [][NextSample]_vars

-----------------------------------------------------------------------------
(* Properties of the sample transform *)

\* C12: an event that matches exclude is always passed, for every rate (0
\* included), every key_field and every history of the sampler: it is emitted
\* exactly once, unchanged, and the counter is left as it was.
C12_ExcludedAlwaysPasses ==
    (sampleCall.called /\ Excluded(sampleCall.before, sampleCall.event)) =>
        /\ ~sampleCall.panic
        /\ sampleCall.output = <<sampleCall.event>>
        /\ sampler = sampleCall.before

\* an excluded event with a key went through a sampler of rate 0
C12_Witness ==
    /\ sampleCall.called
    /\ Excluded(sampleCall.before, sampleCall.event)
    /\ sampleCall.before.rate = 0
    /\ Keyed(sampleCall.before, sampleCall.event)
    /\ sampleCall.output = <<sampleCall.event>>

RECURSIVE DecimalValue(_)
\* the number a sequence of decimal digits stands for
DecimalValue(digits) ==
    IF digits = <<>>
    THEN 0
    ELSE LET n == Len(digits)
         IN  DecimalValue(SubSeq(digits, 1, n - 1)) * 10
               + ((CHOOSE d \in 1..10 : DigitChars[d] = digits[n]) - 1)

\* whether the sampling of lines 126-134 selects the event
Selected(self, event) ==
    IF Keyed(self, event)
    THEN seahash_hash(event[self.key_field.v].s) % self.rate = 0
    ELSE self.count % self.rate = 0

\* C13: an event emitted because it was selected by sampling carries
\* sample_rate, the configured rate as a decimal string, and is otherwise the
\* input event; an event that was not selected is discarded: nothing is
\* emitted for it.
C13_SelectedCarriesRate ==
    (sampleCall.called /\ ~Excluded(sampleCall.before, sampleCall.event)
       /\ ~sampleCall.panic) =>
        LET self == sampleCall.before
            event == sampleCall.event
            output == sampleCall.output
        IN  IF Selected(self, event)
            THEN /\ Len(output) = 1
                 /\ output[1].sample_rate.present
                 /\ \A i \in 1..Len(output[1].sample_rate.s) :
                        \E d \in 1..10 : DigitChars[d] = output[1].sample_rate.s[i]
                 /\ Len(output[1].sample_rate.s) > 1 => output[1].sample_rate.s[1] # "0"
                 /\ DecimalValue(output[1].sample_rate.s) = self.rate
                 /\ \A f \in SampleFields \ {"sample_rate"} : output[1][f] = event[f]
            ELSE output = <<>>

\* an event that carried the sample_rate of an earlier sampler was selected
C13_Witness ==
    /\ sampleCall.called
    /\ ~Excluded(sampleCall.before, sampleCall.event)
    /\ sampleCall.event.sample_rate = Present(<<"9">>)
    /\ sampleCall.before.rate = U64Max
    /\ Len(sampleCall.output) = 1
    /\ sampleCall.output[1].sample_rate = Present(u64_to_string(U64Max))

\* C14: for an event that carries the configured key field, passing or
\* discarding depends on the key's value and the rate only: every decision on
\* a key is the decision taken when that key was first sampled, whatever the
\* counter and the events in between.
C14_KeyedSamplingConsistent ==
    (sampleCall.called /\ Keyed(sampleCall.before, sampleCall.event)
       /\ ~Excluded(sampleCall.before, sampleCall.event) /\ ~sampleCall.panic) =>
        decided[sampleCall.event.key.s] =
            IF sampleCall.output = <<>> THEN "drop" ELSE "pass"

\* a key was passed again while the counter stood elsewhere than at its start,
\* and another key was discarded
C14_Witness ==
    /\ sampleCall.called
    /\ Keyed(sampleCall.before, sampleCall.event)
    /\ ~Excluded(sampleCall.before, sampleCall.event)
    /\ sampleCall.before.count # 0
    /\ sampleCall.output # <<>>
    /\ \E k \in KeyTexts : decided[k] = "drop"

\* how many entries of a sequence of booleans are TRUE
Trues(seq) == Cardinality({i \in DOMAIN seq : seq[i]})

\* C21: for a Sample with rate >= 1, in every state 0 <= count < rate and no
\* call has overflowed count + 1; a call on an event that does not match
\* exclude leaves count one further modulo rate, keyed or not, and a call on
\* an excluded event leaves it alone; an event without a key value passes
\* exactly when count was 0 on arrival; and without key_field the first event
\* that is not excluded passes, and of every `rate` consecutive events that
\* are not excluded exactly one passes.
C21_CounterCycles ==
    sampler.rate >= 1 =>
        /\ sampler.count >= 0 /\ sampler.count < sampler.rate
        /\ ~sampleCall.overflow
        /\ ~sampleCall.panic
        /\ sampleCall.called =>
              LET self == sampleCall.before
                  event == sampleCall.event
              IN  /\ sampler.count =
                        IF Excluded(self, event)
                        THEN self.count
                        ELSE (self.count + 1) % self.rate
                  /\ (~Excluded(self, event) /\ ~Keyed(self, event)) =>
                        (sampleCall.output # <<>> <=> self.count = 0)
        /\ ~sampler.key_field.some =>
              /\ Len(sampleCall.window) <= sampler.rate
              /\ sampleCall.window # <<>> /\ Len(sampleCall.window) < sampler.rate =>
                    sampleCall.window[1] /\ Trues(sampleCall.window) = 1
              /\ Len(sampleCall.window) = sampler.rate => Trues(sampleCall.window) = 1

\* a Sample of rate 3 without key_field has passed one event, discarded two
\* and passed the next; the last event it was given was excluded
C21_Witness ==
    /\ sampler.rate = 3
    /\ ~sampler.key_field.some
    /\ sampleCall.called
    /\ Excluded(sampleCall.before, sampleCall.event)
    /\ sampleCall.window = <<FALSE, FALSE, TRUE>>
    /\ sampler.count = 1

-----------------------------------------------------------------------------
(* The split transform: src/transforms/split.rs *)

\* the characters of the texts: a letter, a digit, the two kinds of
\* whitespace and a comma
SplitChars == {"a", "1", " ", "\t", ","}

Whitespace == {" ", "\t"}

Texts == UNION {[1..n -> SplitChars] : n \in 0..MaxLen}

\* Value::Bytes, Value::Integer and a field that is not in the event
BytesValue(t) == [present |-> TRUE, kind |-> "bytes", s |-> t, n |-> 0]
IntegerValue(n) == [present |-> TRUE, kind |-> "integer", s |-> <<>>, n |-> n]
NoField_ == [present |-> FALSE, kind |-> "none", s |-> <<>>, n |-> 0]

SplitNames == {"message", "code", "time"}

\* log_schema().message_key()
message_key == "message"

\* the events given to the splitter: the message is a text, a number, or missing
SplitEvents ==
    {[f \in SplitNames |-> IF f = message_key THEN m ELSE NoField_] :
        m \in {BytesValue(t) : t \in Texts} \cup {IntegerValue(11), NoField_}}

\* Value::to_string_lossy
Value_to_string_lossy(v) == IF v.kind = "integer" THEN u64_to_string(v.n) ELSE v.s

\* Conversion::convert: Bytes keeps the text, Integer parses decimal digits
Conversion_convert(conversion, t) ==
    CASE conversion = "bytes" -> [ok |-> TRUE, value |-> BytesValue(t)]
      [] conversion = "integer" ->
            IF t # <<>> /\ \A i \in 1..Len(t) : \E d \in 1..10 : DigitChars[d] = t[i]
            THEN [ok |-> TRUE, value |-> IntegerValue(DecimalValue(t))]
            ELSE [ok |-> FALSE, value |-> NoField_]

\* whether pattern occurs in t at index i
OccursAt(t, pattern, i) ==
    /\ i + Len(pattern) - 1 <= Len(t)
    /\ \A j \in 1..Len(pattern) : t[i + j - 1] = pattern[j]

RECURSIVE str_split(_, _)
\* str::split with a string pattern: the pieces between the matches of the
\* pattern, found from the left without overlap; the empty pattern matches at
\* every character boundary, the two ends included
str_split(input, pattern) ==
    IF pattern = <<>>
    THEN <<<<>>>> \o [i \in 1..Len(input) |-> <<input[i]>>] \o <<<<>>>>
    ELSE IF \E i \in 1..Len(input) : OccursAt(input, pattern, i)
         THEN LET i == CHOOSE k \in 1..Len(input) :
                         /\ OccursAt(input, pattern, k)
                         /\ \A l \in 1..(k - 1) : ~OccursAt(input, pattern, l)
              IN  <<SubSeq(input, 1, i - 1)>>
                    \o str_split(SubSeq(input, i + Len(pattern), Len(input)), pattern)
         ELSE <<input>>

RECURSIVE str_split_whitespace(_)
\* str::split_whitespace: the runs of characters that are not whitespace
str_split_whitespace(input) ==
    IF input = <<>>
    THEN <<>>
    ELSE IF Head(input) \in Whitespace
         THEN str_split_whitespace(Tail(input))
         ELSE LET stops == {i \in 1..Len(input) : input[i] \in Whitespace}
                  end == IF stops = {}
                         THEN Len(input)
                         ELSE (CHOOSE i \in stops : \A j \in stops : i <= j) - 1
              IN  <<SubSeq(input, 1, end)>>
                    \o str_split_whitespace(SubSeq(input, end + 1, Len(input)))

\* a split that leaves out the empty pieces between separators
split_skips_empty(input, separator) ==
    IF separator.some
    THEN SelectSeq(str_split(input, separator.v), LAMBDA piece : piece # <<>>)
    ELSE str_split_whitespace(input)

\* split
split(input, separator) ==
    IF separator.some
    THEN str_split(input, separator.v)
    ELSE str_split_whitespace(input)

\* Split::new: every name with the conversion configured for it, or Bytes
Split_new(field_names, separator, field, drop_field, types) ==
    [field_names |->
        [i \in 1..Len(field_names) |->
            [name |-> field_names[i],
             conversion |-> IF types[field_names[i]] # "none"
                            THEN types[field_names[i]]
                            ELSE "bytes"]],
     separator |-> separator,
     field |-> field,
     drop_field |-> drop_field]

\* a build that passes drop_field on as it is configured
SplitConfig_build_always_drops(config) ==
    LET field == IF config.field.some THEN config.field.v ELSE message_key
    IN  Split_new(config.field_names, config.separator, field, config.drop_field,
                  config.types)

\* SplitConfig::build
SplitConfig_build(config) ==
    LET field == IF config.field.some THEN config.field.v ELSE message_key
        drop_field ==
            config.drop_field
              /\ ~(\E i \in 1..Len(config.field_names) : config.field_names[i] = field)
    IN  Split_new(config.field_names, config.separator, field, drop_field, config.types)

Min(a, b) == IF a <= b THEN a ELSE b

RECURSIVE InsertPairs(_, _, _, _)
\* the loop of transform over field_names.iter().zip(split(..)), from pair i on
InsertPairs(event, field_names, pieces, i) ==
    IF i > Min(Len(field_names), Len(pieces))
    THEN event
    ELSE LET converted == Conversion_convert(field_names[i].conversion, pieces[i])
         IN  InsertPairs(IF converted.ok
                         THEN [event EXCEPT ![field_names[i].name] = converted.value]
                         ELSE event,
                         field_names, pieces, i + 1)

\* a transform that pairs the names with the segments from the last one back
Split_transform_reversed(self, event) ==
    IF event[self.field].present
    THEN LET value == Value_to_string_lossy(event[self.field])
             pieces == split(value, self.separator)
             reversed == [i \in 1..Len(pieces) |-> pieces[Len(pieces) + 1 - i]]
             inserted == InsertPairs(event, self.field_names, reversed, 1)
         IN  [output |-> <<IF self.drop_field
                           THEN [inserted EXCEPT ![self.field] = NoField_]
                           ELSE inserted>>,
              pieces |-> pieces]
    ELSE [output |-> <<event>>, pieces |-> <<>>]

\* Split::transform
Split_transform(self, event) ==
    IF event[self.field].present
    THEN LET value == Value_to_string_lossy(event[self.field])
             pieces == split(value, self.separator)
             inserted == InsertPairs(event, self.field_names, pieces, 1)
         IN  [output |-> <<IF self.drop_field
                           THEN [inserted EXCEPT ![self.field] = NoField_]
                           ELSE inserted>>,
              pieces |-> pieces]
    ELSE [output |-> <<event>>, pieces |-> <<>>]

NameLists == UNION {[1..n -> SplitNames] : n \in 0..MaxNames}

Separators == {NoString, Some(<<>>), Some(<<",">>), Some(<<",", ",">>)}

SplitConfigs ==
    [field_names : NameLists,
     separator : Separators,
     field : {NoField, Some("message")},
     drop_field : BOOLEAN,
     types : {[f \in SplitNames |-> IF f = "code" THEN c ELSE "none"] :
                c \in {"none", "integer"}}]

NoSplitCall ==
    [called |-> FALSE, event |-> [f \in SplitNames |-> NoField_], output |-> <<>>,
     pieces |-> <<>>]

InitSplit ==
    /\ NotAtRest /\ SampleAtRest /\ VdevAtRest
    /\ splitConfig \in SplitConfigs
    /\ splitter = SplitConfig_build(splitConfig)
    /\ splitCall = NoSplitCall

\* one event goes through the splitter; transform leaves the Split as it is,
\* so that a behaviour follows a single event
SplitTransform ==
    /\ ~splitCall.called
    /\ \E event \in SplitEvents :
        LET r == Split_transform(splitter, event)
        IN  splitCall' = [called |-> TRUE, event |-> event, output |-> r.output,
                          pieces |-> r.pieces]
    /\ UNCHANGED <<splitConfig, splitter>>
    /\ UNCHANGED <<notVars, sampleVars, vdevVars>>

NextSplit == SplitTransform

SpecSplit == InitSplit /\ [][NextSplit]_vars

-----------------------------------------------------------------------------
(* Properties of the split transform *)

\* the text the last call of transform found in the source field
SplitInput == Value_to_string_lossy(splitCall.event[splitter.field])

SplitHadInput == splitCall.called /\ splitCall.event[splitter.field].present

RECURSIVE Join(_, _)
\* the pieces with sep between every two of them
Join(pieces, sep) ==
    IF Len(pieces) = 0 THEN <<>>
    ELSE IF Len(pieces) = 1 THEN pieces[1]
    ELSE pieces[1] \o sep \o Join(Tail(pieces), sep)

RECURSIVE CountMatches(_, _, _)
\* the number of occurrences of a non-empty pattern in t from index i on,
\* counted from the left without overlap
CountMatches(t, pattern, i) ==
    IF i + Len(pattern) - 1 > Len(t)
    THEN 0
    ELSE IF OccursAt(t, pattern, i)
         THEN 1 + CountMatches(t, pattern, i + Len(pattern))
         ELSE CountMatches(t, pattern, i + 1)

\* C17: without a separator, split gives the maximal runs of characters that
\* are not whitespace, in order, and no empty string; with a separator it
\* gives the pieces between consecutive occurrences of the separator, in
\* order: n occurrences give n + 1 pieces, empty ones included, and the pieces
\* joined with the separator are the input.
C17_SplitPieces ==
    SplitHadInput =>
        LET input == SplitInput
            pieces == splitCall.pieces
            separator == splitter.separator
        IN  /\ pieces = split(input, separator)
            /\ IF ~separator.some
               THEN /\ \A i \in 1..Len(pieces) :
                        /\ pieces[i] # <<>>
                        /\ \A j \in 1..Len(pieces[i]) : pieces[i][j] \notin Whitespace
                    /\ Join(pieces, <<>>) = SelectSeq(input, LAMBDA c : c \notin Whitespace)
                    /\ Len(pieces) =
                         Cardinality({i \in 1..Len(input) :
                            /\ input[i] \notin Whitespace
                            /\ (i = 1 \/ input[i - 1] \in Whitespace)})
               ELSE /\ Join(pieces, separator.v) = input
                    /\ Len(pieces) >= 1
                    /\ IF separator.v = <<>>
                       THEN Len(pieces) = (Len(input) + 1) + 1
                       ELSE Len(pieces) = CountMatches(input, separator.v, 1) + 1

\* a text of two commas was split at the comma into three empty pieces
C17_Witness ==
    /\ SplitHadInput
    /\ splitter.separator = Some(<<",">>)
    /\ SplitInput = <<",", ",">>
    /\ splitCall.pieces = << <<>>, <<>>, <<>> >>


\* the event the last call of transform pushed
SplitOutput == splitCall.output[1]

\* the number of (name, segment) pairs of the last call
Paired == Min(Len(splitter.field_names), Len(splitCall.pieces))

\* the conversion configured for the i-th name, Bytes when there is none
ConfiguredConversion(i) ==
    IF splitConfig.types[splitConfig.field_names[i]] # "none"
    THEN splitConfig.types[splitConfig.field_names[i]]
    ELSE "bytes"

\* the i-th segment converted with the type configured for the i-th name
Converted(i) == Conversion_convert(ConfiguredConversion(i), splitCall.pieces[i])

\* the paired positions that carry the name f
PositionsOf(f) == {i \in 1..Paired : splitConfig.field_names[i] = f}

\* C15 as claimed: the i-th name receives the i-th segment, converted with the
\* type configured for the name or kept as bytes; pairing stops at the shorter
\* list: surplus segments are ignored and names without a segment are not
\* inserted; with drop_field false the source field stays in the event.
C15_AssignsByPosition_AsClaimed ==
    SplitHadInput =>
        /\ Len(splitCall.output) = 1
        /\ \A i \in 1..Paired :
                /\ Converted(i).ok
                /\ SplitOutput[splitConfig.field_names[i]] = Converted(i).value
        /\ \A f \in SplitNames \ {splitter.field} :
                PositionsOf(f) = {} => SplitOutput[f] = splitCall.event[f]
        /\ ~splitConfig.drop_field => SplitOutput[splitter.field].present

\* the paired positions of the name f whose segment converts
ConvertingPositionsOf(f) == {i \in PositionsOf(f) : Converted(i).ok}

\* what the field f holds after the insertions: the converted segment of the
\* last converting position that carries the name, else what it held before
AfterInsertions(f) ==
    IF ConvertingPositionsOf(f) = {}
    THEN splitCall.event[f]
    ELSE Converted(CHOOSE i \in ConvertingPositionsOf(f) :
                        \A j \in ConvertingPositionsOf(f) : j <= i).value

\* C15, amended: the i-th name is paired with the i-th segment, converted with
\* the type configured for the name or kept as bytes; a segment whose
\* conversion fails is not inserted, and of the positions of a name configured
\* more than once the last one that converts wins; pairing stops at the
\* shorter list; with drop_field false the source field stays in the event.
C15_AssignsByPosition ==
    SplitHadInput =>
        /\ Len(splitCall.output) = 1
        /\ \A i \in 1..Paired :
                (Converted(i).ok /\ \A j \in (i + 1)..Paired :
                        splitConfig.field_names[j] # splitConfig.field_names[i]) =>
                    \/ SplitOutput[splitConfig.field_names[i]] = Converted(i).value
                    \/ (splitter.drop_field /\ splitConfig.field_names[i] = splitter.field)
        /\ \A f \in SplitNames :
                \/ SplitOutput[f] = AfterInsertions(f)
                \/ (splitter.drop_field /\ f = splitter.field)
        /\ ~splitConfig.drop_field => SplitOutput[splitter.field].present

\* `1 a` was split for the names code, code, both integers: the second segment
\* does not convert, and code holds the first
C15_Witness ==
    /\ SplitHadInput
    /\ splitConfig.field_names = <<"code", "code">>
    /\ splitConfig.types["code"] = "integer"
    /\ splitCall.pieces = << <<"1">>, <<"a">> >>
    /\ SplitOutput["code"] = IntegerValue(1)
    /\ SplitOutput["time"] = NoField_

\* whether a configured field name is the source field
NamesSourceField ==
    \E i \in 1..Len(splitConfig.field_names) : splitConfig.field_names[i] = splitter.field

-----------------------------------------------------------------------------
(* Integration test environments: vdev/src/testing/integration.rs and        *)
(* vdev/src/commands/integration/stop.rs.  The state directory and the       *)
(* configuration can always be read; compose, the removal or saving of state *)
(* and the runner are commands that may fail.                                *)

\* the environments of the integration
VdevEnvs == {"e1", "e2"}

\* the configurations an environment can be defined or saved with; "none"
\* where the configuration does not define it, or no state is saved for it
EnvConfigs == {"v1", "v2"}

NoFault == [op |-> "none", env |-> "none"]

\* the commands start, test and stop run
StartOps == {"network", "compose", "save"}

StopOps == {"compose", "remove", "runner_stop"}

TestOps == StartOps \cup StopOps \cup {"runner_test"}

\* the failures that can meet a command on the environments envs
FaultsOf(ops, envs) == {NoFault} \cup [op : ops, env : envs]

\* the part of the world the commands read and change
World == [defined |-> defined, active |-> active, runnerUp |-> runnerUp]

\* what a command leaves: the world, the commands it ran, and its Result
Done(world, log, result) == [world |-> world, log |-> log, result |-> result]

Ran(op, environment, config, ok) ==
    [op |-> op, env |-> environment, config |-> config, ok |-> ok]

\* EnvsDir::exists
EnvsDir_exists(world, environment) == world.active[environment] # "none"

\* EnvsDir::list_active
EnvsDir_list_active(world) == {e \in VdevEnvs : world.active[e] # "none"}

\* a stop that takes the currently defined configuration first
IntegrationTest_stop_prefers_defined(world, environment, force, fault) ==
    LET exists == EnvsDir_exists(world, environment)
        cmd_config == IF world.defined[environment] # "none"
                      THEN world.defined[environment]
                      ELSE world.active[environment]
    IN  IF ~exists /\ ~force
        THEN Done(world, <<>>, "environment is not up")
        ELSE IF cmd_config = "none"
        THEN Done(world, <<>>, "unknown environment")
        ELSE IF fault = [op |-> "compose", env |-> environment]
        THEN Done(world, <<Ran("compose_down", environment, cmd_config, FALSE)>>,
                  "compose failed")
        ELSE LET down == world
                 downLog == <<Ran("compose_down", environment, cmd_config, TRUE)>>
                 removed == [down EXCEPT !.active[environment] = "none"]
                 removedLog == downLog \o <<Ran("remove", environment, "none", TRUE)>>
             IN  IF fault = [op |-> "remove", env |-> environment]
                 THEN Done(down, downLog \o <<Ran("remove", environment, "none", FALSE)>>,
                           "remove failed")
                 ELSE IF EnvsDir_list_active(removed) # {}
                 THEN Done(removed, removedLog, "ok")
                 ELSE IF fault = [op |-> "runner_stop", env |-> environment]
                 THEN Done(removed,
                           removedLog \o <<Ran("runner_stop", environment, "none", FALSE)>>,
                           "runner stop failed")
                 ELSE Done([removed EXCEPT !.runnerUp = FALSE],
                           removedLog \o <<Ran("runner_stop", environment, "none", TRUE)>>,
                           "ok")

\* a stop that stops the runner whether or not an environment is left active
IntegrationTest_stop_always_stops_runner(world, environment, force, fault) ==
    LET exists == EnvsDir_exists(world, environment)
        cmd_config == IF exists
                      THEN world.active[environment]
                      ELSE world.defined[environment]
    IN  IF ~exists /\ ~force
        THEN Done(world, <<>>, "environment is not up")
        ELSE IF ~exists /\ world.defined[environment] = "none"
        THEN Done(world, <<>>, "unknown environment")
        ELSE IF fault = [op |-> "compose", env |-> environment]
        THEN Done(world, <<Ran("compose_down", environment, cmd_config, FALSE)>>,
                  "compose failed")
        ELSE LET down == world
                 downLog == <<Ran("compose_down", environment, cmd_config, TRUE)>>
                 removed == [down EXCEPT !.active[environment] = "none"]
                 removedLog == downLog \o <<Ran("remove", environment, "none", TRUE)>>
             IN  IF fault = [op |-> "remove", env |-> environment]
                 THEN Done(down, downLog \o <<Ran("remove", environment, "none", FALSE)>>,
                           "remove failed")
                 ELSE IF fault = [op |-> "runner_stop", env |-> environment]
                 THEN Done(removed,
                           removedLog \o <<Ran("runner_stop", environment, "none", FALSE)>>,
                           "runner stop failed")
                 ELSE Done([removed EXCEPT !.runnerUp = FALSE],
                           removedLog \o <<Ran("runner_stop", environment, "none", TRUE)>>,
                           "ok")

\* IntegrationTest::stop
IntegrationTest_stop(world, environment, force, fault) ==
    LET exists == EnvsDir_exists(world, environment)
        cmd_config == IF exists
                      THEN world.active[environment]
                      ELSE world.defined[environment]
    IN  IF ~exists /\ ~force
        THEN Done(world, <<>>, "environment is not up")
        ELSE IF ~exists /\ world.defined[environment] = "none"
        THEN Done(world, <<>>, "unknown environment")
        ELSE IF fault = [op |-> "compose", env |-> environment]
        THEN Done(world, <<Ran("compose_down", environment, cmd_config, FALSE)>>,
                  "compose failed")
        ELSE LET down == world
                 downLog == <<Ran("compose_down", environment, cmd_config, TRUE)>>
                 removed == [down EXCEPT !.active[environment] = "none"]
                 removedLog == downLog \o <<Ran("remove", environment, "none", TRUE)>>
             IN  IF fault = [op |-> "remove", env |-> environment]
                 THEN Done(down, downLog \o <<Ran("remove", environment, "none", FALSE)>>,
                           "remove failed")
                 ELSE IF EnvsDir_list_active(removed) # {}
                 THEN Done(removed, removedLog, "ok")
                 ELSE IF fault = [op |-> "runner_stop", env |-> environment]
                 THEN Done(removed,
                           removedLog \o <<Ran("runner_stop", environment, "none", FALSE)>>,
                           "runner stop failed")
                 ELSE Done([removed EXCEPT !.runnerUp = FALSE],
                           removedLog \o <<Ran("runner_stop", environment, "none", TRUE)>>,
                           "ok")

\* a start that does not look whether the environment is already up
IntegrationTest_start_again(world, environment, fault) ==
    IF fault = [op |-> "network", env |-> environment]
    THEN Done(world, <<Ran("ensure_network", environment, "none", FALSE)>>, "network failed")
    ELSE LET netLog == <<Ran("ensure_network", environment, "none", TRUE)>>
             cmd_config == world.defined[environment]
         IN  IF cmd_config = "none"
             THEN Done(world, netLog, "unknown environment")
             ELSE IF fault = [op |-> "compose", env |-> environment]
             THEN Done(world, netLog \o <<Ran("compose_up", environment, cmd_config, FALSE)>>,
                       "compose failed")
             ELSE LET up == world
                      upLog == netLog \o <<Ran("compose_up", environment, cmd_config, TRUE)>>
                  IN  IF fault = [op |-> "save", env |-> environment]
                      THEN Done(up, upLog \o <<Ran("save", environment, cmd_config, FALSE)>>,
                                "save failed")
                      ELSE Done([up EXCEPT !.active[environment] = cmd_config],
                                upLog \o <<Ran("save", environment, cmd_config, TRUE)>>,
                                "ok")

\* IntegrationTest::start
IntegrationTest_start(world, environment, fault) ==
    IF fault = [op |-> "network", env |-> environment]
    THEN Done(world, <<Ran("ensure_network", environment, "none", FALSE)>>, "network failed")
    ELSE LET netLog == <<Ran("ensure_network", environment, "none", TRUE)>>
             cmd_config == world.defined[environment]
         IN  IF cmd_config = "none"
             THEN Done(world, netLog, "unknown environment")
             ELSE IF EnvsDir_exists(world, environment)
             THEN Done(world, netLog, "environment is already up")
             ELSE IF fault = [op |-> "compose", env |-> environment]
             THEN Done(world, netLog \o <<Ran("compose_up", environment, cmd_config, FALSE)>>,
                       "compose failed")
             ELSE LET up == world
                      upLog == netLog \o <<Ran("compose_up", environment, cmd_config, TRUE)>>
                  IN  IF fault = [op |-> "save", env |-> environment]
                      THEN Done(up, upLog \o <<Ran("save", environment, cmd_config, FALSE)>>,
                                "save failed")
                      ELSE Done([up EXCEPT !.active[environment] = cmd_config],
                                upLog \o <<Ran("save", environment, cmd_config, TRUE)>>,
                                "ok")

\* IntegrationTest::test
IntegrationTest_test(world, environment, fault) ==
    LET was_active == EnvsDir_exists(world, environment)
        started == IF was_active
                   THEN Done(world, <<>>, "ok")
                   ELSE IntegrationTest_start(world, environment, fault)
    IN  IF started.result # "ok"
        THEN started
        ELSE IF fault = [op |-> "runner_test", env |-> environment]
        THEN Done([started.world EXCEPT !.runnerUp = TRUE],
                  started.log \o <<Ran("runner_test", environment, "none", FALSE)>>,
                  "test failed")
        ELSE LET tested == [started.world EXCEPT !.runnerUp = TRUE]
                 testedLog == started.log \o <<Ran("runner_test", environment, "none", TRUE)>>
             IN  IF was_active
                 THEN Done(tested, testedLog, "ok")
                 ELSE LET stopped == IntegrationTest_stop(tested, environment, FALSE, fault)
                      IN  Done(stopped.world, testedLog \o stopped.log, stopped.result)

\* the orders in which the environments of a set can be listed
Orders(S) ==
    {order \in [1..Cardinality(S) -> S] :
        \A i, j \in 1..Cardinality(S) : i # j => order[i] # order[j]}

RECURSIVE StopEach(_, _, _, _, _, _)
\* the loop of Cli::exec over the active environments, from the i-th on
StopEach(world, order, i, force, fault, log) ==
    IF i > Len(order)
    THEN Done(world, log, "ok")
    ELSE LET called == log \o <<Ran("stop", order[i], "none", TRUE)>>
             stopped == IntegrationTest_stop(world, order[i], force, fault)
         IN  IF stopped.result # "ok"
             THEN Done(stopped.world, called \o stopped.log, stopped.result)
             ELSE StopEach(stopped.world, order, i + 1, force, fault, called \o stopped.log)

\* the loop of Cli::exec over the active environments
StopAll(world, order, force, fault) == StopEach(world, order, 1, force, fault, <<>>)

\* an exec that stops every active environment whatever it was asked for
Cli_exec_ignores_environment(world, old_exists, environment, force, fault, order) ==
    IF ~environment.some /\ old_exists
    THEN Done(world, <<Ran("old_compose_rm", "none", "none", TRUE)>>, "ok")
    ELSE IF EnvsDir_list_active(world) = {}
    THEN Done(world, <<>>, "ok")
    ELSE StopAll(world, order, force, fault)

\* Cli::exec of the stop command; order is the order list_active lists in
Cli_exec(world, old_exists, environment, force, fault, order) ==
    IF ~environment.some /\ old_exists
    THEN Done(world, <<Ran("old_compose_rm", "none", "none", TRUE)>>, "ok")
    ELSE IF environment.some
    THEN LET stopped == IntegrationTest_stop(world, environment.v, force, fault)
         IN  Done(stopped.world,
                  <<Ran("stop", environment.v, "none", TRUE)>> \o stopped.log,
                  stopped.result)
    ELSE IF EnvsDir_list_active(world) = {}
    THEN Done(world, <<>>, "ok")
    ELSE StopAll(world, order, force, fault)

Definitions == [VdevEnvs -> EnvConfigs \cup {"none"}]

NoCmd == [name |-> "none", environment |-> NoField, force |-> FALSE,
          before |-> [defined |-> [e \in VdevEnvs |-> "none"],
                      active |-> [e \in VdevEnvs |-> "none"],
                      runnerUp |-> FALSE],
          log |-> <<>>, result |-> "none"]

InitVdev ==
    /\ NotAtRest /\ SampleAtRest /\ SplitAtRest
    /\ defined \in Definitions
    /\ active = [e \in VdevEnvs |-> "none"]
    /\ runnerUp = FALSE
    /\ oldExists \in BOOLEAN
    /\ cmd = NoCmd

\* a command has run: the world and the record of the command are updated
Commit(name, environment, force, done) ==
    /\ active' = done.world.active
    /\ runnerUp' = done.world.runnerUp
    /\ cmd' = [name |-> name, environment |-> environment, force |-> force,
               before |-> World, log |-> done.log, result |-> done.result]
    /\ UNCHANGED <<defined, oldExists>>
    /\ UNCHANGED <<notVars, sampleVars, splitVars>>

\* vdev integration start
VdevStart ==
    \E e \in VdevEnvs : \E fault \in FaultsOf(StartOps, {e}) :
        Commit("start", Some(e), FALSE, IntegrationTest_start(World, e, fault))

\* vdev integration test
VdevTest ==
    \E e \in VdevEnvs : \E fault \in FaultsOf(TestOps, {e}) :
        Commit("test", Some(e), FALSE, IntegrationTest_test(World, e, fault))

\* vdev integration stop
VdevStop ==
    \E environment \in {NoField} \cup {Some(e) : e \in VdevEnvs},
       force \in BOOLEAN, fault \in FaultsOf(StopOps, VdevEnvs),
       order \in Orders(EnvsDir_list_active(World)) :
        Commit("stop", environment, force,
               Cli_exec(World, oldExists, environment, force, fault, order))

\* the configuration of the integration is edited between two commands
EditConfig ==
    /\ defined' \in Definitions
    /\ defined' # defined
    /\ UNCHANGED <<active, runnerUp, oldExists, cmd>>
    /\ UNCHANGED <<notVars, sampleVars, splitVars>>

NextVdev == VdevStart \/ VdevTest \/ VdevStop \/ EditConfig

SpecVdev == InitVdev /\ [][NextVdev]_vars

-----------------------------------------------------------------------------
(* Properties of the stop command.                                           *)

IsStopCall(r) == r.op = "stop"

IsComposeDown(r) == r.op = "compose_down"

IsStopEffect(r) == r.op \in {"compose_down", "remove", "runner_stop"}

\* the calls of stop, the compose downs and the commands of stop in the log
\* of the last command
StopCalls == SelectSeq(cmd.log, IsStopCall)

ComposeDowns == SelectSeq(cmd.log, IsComposeDown)

StopEffects == SelectSeq(cmd.log, IsStopEffect)

\* the environments the last command called stop on
StopCalled == {StopCalls[i].env : i \in DOMAIN StopCalls}

\* the last command left the saved state and the runner as it found them
NothingChanged == active = cmd.before.active /\ runnerUp = cmd.before.runnerUp

\* C18: the stop command without an environment, and with no old-style
\* compose file, calls stop on each environment listed as active, once each
\* and one after another, and ends at the first failure: only the last
\* command it ran can have failed, and it returns Ok exactly when none did;
\* when it returns Ok it has called stop on every environment that was active
\* and none is active any more; when none was active it returns Ok and runs
\* nothing.  With an environment it calls stop on that environment only and
\* leaves the saved state of every other environment alone.
C18_StopAllOrOne ==
    (cmd.name = "stop" /\ ~oldExists) =>
        LET was == EnvsDir_list_active(cmd.before)
            calls == StopCalls
        IN  IF cmd.environment.some
            THEN /\ StopCalled = {cmd.environment.v}
                 /\ Len(calls) = 1
                 /\ \A i \in DOMAIN cmd.log : cmd.log[i].env = cmd.environment.v
                 /\ \A e \in VdevEnvs \ {cmd.environment.v} :
                        active[e] = cmd.before.active[e]
            ELSE /\ StopCalled \subseteq was
                 /\ Cardinality(StopCalled) = Len(calls)
                 /\ \A i \in DOMAIN cmd.log : ~cmd.log[i].ok => i = Len(cmd.log)
                 /\ cmd.result = "ok" <=> \A i \in DOMAIN cmd.log : cmd.log[i].ok
                 /\ cmd.result = "ok" =>
                        StopCalled = was /\ EnvsDir_list_active(World) = {}
                 /\ was = {} =>
                        cmd.result = "ok" /\ cmd.log = <<>> /\ NothingChanged

\* a stop of all environments has stopped one and failed on the next
C18_Witness ==
    /\ cmd.name = "stop" /\ ~oldExists /\ ~cmd.environment.some
    /\ Cardinality(EnvsDir_list_active(cmd.before)) = 2
    /\ Len(StopCalls) = 2
    /\ cmd.result # "ok"
    /\ Cardinality(EnvsDir_list_active(World)) = 1

\* C19: IntegrationTest::stop, as the stop command calls it on a named
\* environment.  Not recorded as up and not forced: it fails with
\* "environment is not up", runs no command and changes nothing.  Not
\* recorded as up and forced: it runs compose down with the configuration
\* currently defined for the environment, or fails with "unknown environment",
\* running no command and changing nothing, when none is defined.  Recorded
\* as up: it runs compose down with the saved configuration, forced or not.
C19_StopOfOne ==
    (cmd.name = "stop" /\ cmd.environment.some) =>
        LET e == cmd.environment.v
            up == cmd.before.active[e] # "none"
            now == cmd.before.defined[e]
            downs == ComposeDowns
            idle == StopEffects = <<>> /\ NothingChanged
        IN  /\ (~up /\ ~cmd.force) =>
                cmd.result = "environment is not up" /\ idle
            /\ (~up /\ cmd.force /\ now # "none") =>
                /\ Len(downs) = 1
                /\ downs[1].env = e /\ downs[1].config = now
            /\ (~up /\ cmd.force /\ now = "none") =>
                cmd.result = "unknown environment" /\ idle
            /\ up =>
                /\ Len(downs) = 1
                /\ downs[1].env = e /\ downs[1].config = cmd.before.active[e]

\* a forced stop of an environment that is up, saved with another
\* configuration than the one now defined for it
C19_Witness ==
    /\ cmd.name = "stop" /\ cmd.environment.some /\ cmd.force
    /\ cmd.before.active[cmd.environment.v] # "none"
    /\ cmd.before.defined[cmd.environment.v] # "none"
    /\ cmd.before.defined[cmd.environment.v] # cmd.before.active[cmd.environment.v]
    /\ cmd.result = "ok"

-----------------------------------------------------------------------------
(* Properties of start.                                                      *)

IsComposeUp(r) == r.op = "compose_up"

IsSave(r) == r.op = "save"

\* the compose ups and the saves of state in the log of the last command
ComposeUps == SelectSeq(cmd.log, IsComposeUp)

Saves == SelectSeq(cmd.log, IsSave)

\* the last command ran no compose command, saved no state and left the saved
\* state as it found it
StartedNothing == ComposeUps = <<>> /\ Saves = <<>> /\ NothingChanged

\* the last command was a start whose network was there or could be made
StartRan == cmd.name = "start" /\ cmd.log # <<>> /\ cmd.log[1].ok

\* C22 as stated: a start on an environment that is recorded as up fails with
\* "environment is already up"
C22_StartOnce_AsClaimed ==
    (StartRan /\ cmd.before.active[cmd.environment.v] # "none") =>
        cmd.result = "environment is already up"

\* C22: a start on an environment the configuration does not define fails
\* with "unknown environment", recorded as up or not; a start on a defined
\* environment that is recorded as up fails with "environment is already up";
\* both run no compose command, save no state and change nothing.  The state
\* of an environment is saved only after a compose up of this start has
\* succeeded, with the configuration compose was run with, and a failed
\* compose up saves nothing.
C22_StartOnce ==
    cmd.name = "start" =>
        LET e == cmd.environment.v
            up == cmd.before.active[e] # "none"
            now == cmd.before.defined[e]
        IN  /\ ~StartRan => StartedNothing
            /\ (StartRan /\ now = "none") =>
                cmd.result = "unknown environment" /\ StartedNothing
            /\ (StartRan /\ now # "none" /\ up) =>
                cmd.result = "environment is already up" /\ StartedNothing
            /\ Len(ComposeUps) <= 1 /\ Len(Saves) <= 1
            /\ Saves # <<>> =>
                /\ ComposeUps # <<>> /\ ComposeUps[1].ok
                /\ Saves[1].config = ComposeUps[1].config
            /\ active[e] # cmd.before.active[e] =>
                /\ ~up /\ Saves # <<>> /\ Saves[1].ok
                /\ active[e] = now
            /\ (ComposeUps # <<>> /\ ~ComposeUps[1].ok) =>
                Saves = <<>> /\ active[e] = "none" /\ NothingChanged
            /\ \A other \in VdevEnvs \ {e} : active[other] = cmd.before.active[other]

\* a start on an environment that is up and still defined was refused
C22_Witness ==
    /\ StartRan
    /\ cmd.before.active[cmd.environment.v] # "none"
    /\ cmd.before.defined[cmd.environment.v] # "none"
    /\ cmd.result = "environment is already up"
    /\ active = cmd.before.active

-----------------------------------------------------------------------------
(* Properties of stop: the saved state and the runner.                       *)

IsRemove(r) == r.op = "remove"

IsRunnerStop(r) == r.op = "runner_stop"

\* the removals of saved state and the stops of the runner in the log of the
\* last command
Removes == SelectSeq(cmd.log, IsRemove)

RunnerStops == SelectSeq(cmd.log, IsRunnerStop)

\* C23: IntegrationTest::stop, as the stop command calls it on a named
\* environment, removes the saved state of the environment only after its
\* compose down has succeeded: a failed compose down leaves the environment
\* recorded as it was and runs nothing more.  It stops the runner exactly when
\* the removal has succeeded and no environment is active after it; while
\* another environment is active the runner is left as it was.
C23_RemoveThenRunner ==
    (cmd.name = "stop" /\ cmd.environment.some) =>
        LET e == cmd.environment.v
            others == EnvsDir_list_active(cmd.before) \ {e}
        IN  /\ Len(ComposeDowns) <= 1 /\ Len(Removes) <= 1 /\ Len(RunnerStops) <= 1
            /\ Removes # <<>> => ComposeDowns # <<>> /\ ComposeDowns[1].ok
            /\ (ComposeDowns # <<>> /\ ~ComposeDowns[1].ok) =>
                Removes = <<>> /\ RunnerStops = <<>> /\ NothingChanged
            /\ active[e] # cmd.before.active[e] =>
                Removes # <<>> /\ Removes[1].ok /\ active[e] = "none"
            /\ RunnerStops # <<>> <=>
                (Removes # <<>> /\ Removes[1].ok /\ EnvsDir_list_active(World) = {})
            /\ (RunnerStops # <<>> /\ RunnerStops[1].ok) => ~runnerUp
            /\ others # {} => RunnerStops = <<>> /\ runnerUp = cmd.before.runnerUp
            /\ runnerUp # cmd.before.runnerUp => RunnerStops # <<>> /\ RunnerStops[1].ok

\* one of two active environments was stopped and the runner, which was
\* running, was left running
C23_Witness ==
    /\ cmd.name = "stop" /\ cmd.environment.some
    /\ cmd.result = "ok"
    /\ cmd.before.runnerUp /\ runnerUp
    /\ Cardinality(EnvsDir_list_active(cmd.before)) = 2
    /\ EnvsDir_list_active(World) = EnvsDir_list_active(cmd.before) \ {cmd.environment.v}

-----------------------------------------------------------------------------
(* Properties of test.                                                       *)

IsRunnerTest(r) == r.op = "runner_test"

\* the test runs in the log of the last command
RunnerTests == SelectSeq(cmd.log, IsRunnerTest)

\* the operations of the log of the last command, in the order they ran
LogOps == [i \in DOMAIN cmd.log |-> cmd.log[i].op]

\* no command of the last command failed but, at most, the test run
OnlyTheTestRunFailed ==
    \A i \in DOMAIN cmd.log : ~cmd.log[i].ok => cmd.log[i].op = "runner_test"

\* C24: a test on a defined environment, in which nothing fails but possibly
\* the test run itself, leaves the environment active exactly if it found it
\* active; an environment that was not active is started, tested and stopped
\* before the call returns, and one that was active is tested and neither
\* started nor stopped.
C24_TestLeavesStatus ==
    (cmd.name = "test" /\ OnlyTheTestRunFailed
       /\ cmd.before.defined[cmd.environment.v] # "none") =>
        LET e == cmd.environment.v
            was == cmd.before.active[e] # "none"
        IN  /\ (active[e] # "none") <=> was
            /\ Len(RunnerTests) = 1
            /\ was => ComposeUps = <<>> /\ ComposeDowns = <<>> /\ active = cmd.before.active
            /\ ~was =>
                \E i, j, k \in DOMAIN cmd.log :
                    /\ i < j /\ j < k
                    /\ LogOps[i] = "compose_up"
                    /\ LogOps[j] = "runner_test"
                    /\ LogOps[k] = "compose_down"

====
